---- MODULE Spec2Model ----
(***************************************************************************)
(* wschannel: a Channel over a websocket and the Listener that bridges the *)
(* http.Handler callback to a pull-based Accept queue.                     *)
(*                                                                         *)
(* The repository's files hold two revisions of the listener:              *)
(*   - the MaxPending listener (ServeHTTP enqueues under the mutex and     *)
(*     rejects when the queue is full; Close does not wait), with the      *)
(*     Channel whose Close fires done and closes the transport in the      *)
(*     background.  Specification Spec.                                    *)
(*   - the WaitGroup listener (add starts one goroutine per connection,    *)
(*     Close waits for them), with the Channel whose Close sends the close *)
(*     message, closes the transport and then closes done.                 *)
(*     Specification SpecWG.                                               *)
(* Both are state machines over the same variables.                        *)
(***************************************************************************)
EXTENDS Integers, Sequences, FiniteSets, TLC

\* ------------------------------------------------------------- bounds
NumConns == 3
NumAcceptors == 2
NumClosers == 2
MaxPendingOpt == 2
NumUsers == 2
MaxCloseCalls == 3
MaxMsgs == 2
MaxPayloadLen == 1

Conns == 1..NumConns
Acceptors == 1..NumAcceptors
Closers == 1..NumClosers
Users == 1..NumUsers

\* ------------------------------------------------- program constants
StatusInternalServerError == 500
StatusServiceUnavailable == 503
StatusTeapot == 418
DefaultPending == 1
WGQueueCap == 1

\* ListenOptions values: a nil *ListenOptions, or one with MaxPending = n.
ListenOpts == {<<"nil", 0>>} \cup {<<"opts", n>> : n \in 0..MaxPendingOpt}

\* (o *ListenOptions) maxPending()
maxPending(o) == IF o[1] = "nil" \/ o[2] <= 0 THEN DefaultPending ELSE o[2]

\* What the check hook can answer: <<code, err>>, with or without an error and
\* with a status that is zero, positive or negative.  Without CheckAccept the
\* default hook answers (0, nil).
HookAnswers == {<<0, FALSE>>, <<StatusTeapot, FALSE>>,
                <<0, TRUE>>, <<StatusTeapot, TRUE>>, <<-1, TRUE>>}
check(hookSet) == IF hookSet THEN HookAnswers ELSE {<<0, FALSE>>}

\* The status ServeHTTP writes for a hook error with this code.
checkStatusNonZero(code) == IF code = 0 THEN StatusInternalServerError ELSE code
checkStatusAlways500(code) == StatusInternalServerError
checkStatus(code) == IF code <= 0 THEN StatusInternalServerError ELSE code

VARIABLES
    cap,        \* cap(lst.inc)
    hookSet,    \* whether ListenOptions.CheckAccept is set
    inc,        \* lst.inc: the buffered queue of Channels (by connection id)
    incClosed,  \* whether close(lst.inc) has run
    closed,     \* lst.closed
    mu,         \* lst.mu: Free or the holder
    wg,         \* lst.wg counter (WaitGroup listener)
    panicked,   \* a goroutine panicked (send on or close of a closed channel)
    h,          \* ServeHTTP invocations: [pc, code, msg]
    g,          \* the goroutine add starts per connection (WaitGroup listener)
    chDone,     \* the done channel made for a connection: none / open / fired
    chField,    \* Channel.done field is non-nil
    conn,       \* the transport: none / open / closing (close started) / closed
    acc,        \* Accept callers (consumers), each in its select: [pc, ch, err, werr]
    ctx,        \* the ctx of the Accept call in progress is done
    clo,        \* Listener.Close callers: [pc, res, cur, werr]
    enq,        \* history: connection ids in the order they were sent to inc
    deq,        \* history: connection ids in the order Accept returned them
    drained,    \* history: connection ids Listener.Close received from inc
    closeCalls, \* history: Channel.Close calls started, per connection
    closeRets,  \* history: Channel.Close calls returned, per connection
    usr,        \* goroutines using a Channel directly: [pc, ret, sig, obs, io, raw]
    peerClosed, \* the peer of that Channel has closed the websocket
    wire,       \* per end of a connected pair: the messages on their way to it
    sent,       \* history, per end: the payloads passed to Send on that end
    rcvd,       \* history, per end: the payloads Recv returned on that end
    hookRet     \* history, per attempt: what the check hook returned, <<code, err>>

vars == <<cap, hookSet, inc, incClosed, closed, mu, wg, panicked, h, g, chDone,
          chField, conn, acc, ctx, clo, enq, deq, drained, closeCalls, closeRets,
          usr, peerClosed, wire, sent, rcvd, hookRet>>

lstVars == <<inc, incClosed, closed, mu, wg>>
chanVars == <<chDone, chField, conn>>
histVars == <<enq, deq, drained, closeCalls, closeRets>>
cfgVars == <<cap, hookSet>>
useVars == <<usr, peerClosed>>
pairVars == <<wire, sent, rcvd>>

\* The two ends of a connected pair of Channels.
Ends == {"client", "server"}

Free == <<"free", 0>>
Handler(i) == <<"handler", i>>
Closer(k) == <<"closer", k>>

InitCommon ==
    /\ inc = <<>>
    /\ incClosed = FALSE
    /\ closed = FALSE
    /\ mu = Free
    /\ wg = 0
    /\ panicked = FALSE
    /\ h = [i \in Conns |-> [pc |-> "start", code |-> 0, msg |-> ""]]
    /\ g = [i \in Conns |-> "none"]
    /\ chDone = [i \in Conns |-> "none"]
    /\ chField = [i \in Conns |-> FALSE]
    /\ conn = [i \in Conns |-> "none"]
    /\ acc = [a \in Acceptors |-> [pc |-> "select", ch |-> 0, err |-> "", werr |-> FALSE]]
    /\ ctx = [a \in Acceptors |-> FALSE]
    /\ clo = [k \in Closers |-> [pc |-> "idle", res |-> "", cur |-> 0, werr |-> FALSE]]
    /\ enq = <<>>
    /\ deq = <<>>
    /\ drained = {}
    /\ closeCalls = [i \in Conns |-> 0]
    /\ closeRets = [i \in Conns |-> 0]
    /\ usr = [x \in Users |-> [pc |-> "idle", ret |-> "", sig |-> "none", obs |-> FALSE,
                           io |-> "", raw |-> ""]]
    /\ peerClosed = FALSE
    /\ wire = [e \in Ends |-> <<>>]
    /\ sent = [e \in Ends |-> <<>>]
    /\ rcvd = [e \in Ends |-> <<>>]
    /\ hookRet = [i \in Conns |-> <<>>]

\* NewListener(opts): inc is made with capacity opts.maxPending().
NewListener ==
    /\ cap \in {maxPending(o) : o \in ListenOpts}
    /\ hookSet \in BOOLEAN
    /\ InitCommon

Init == NewListener

\* --------------------------------------------------------- Channel.Close
\* Channel.Close of the MaxPending revision, in its three steps:
\*   if c.done != nil {          (CloseRead: the test)
\*       close(c.done)           (CloseDone)
\*       go c.c.Close(...)       (CloseFinish)
\*       c.done = nil }          (CloseFinish)
\* The transport is "closing" once the background close has been started, and
\* "reclosed" if a second close of it is ever started.
CloseReadAlways(ch) == TRUE
CloseRead(ch) == chField[ch]

CloseDoneSkipped(ch) == UNCHANGED <<chanVars, panicked>>

CloseDone(ch) ==
    IF chDone[ch] = "fired"
    THEN /\ panicked' = TRUE
         /\ UNCHANGED chanVars
    ELSE /\ chDone' = [chDone EXCEPT ![ch] = "fired"]
         /\ UNCHANGED <<panicked, chField, conn>>

CloseFinish(ch) ==
    /\ conn' = [conn EXCEPT ![ch] = IF @ = "open" THEN "closing" ELSE "reclosed"]
    /\ chField' = [chField EXCEPT ![ch] = FALSE]
    /\ UNCHANGED <<chDone, panicked>>

\* ------------------------------------------------------ Listener.ServeHTTP
\* The check hook reports an error: the handler answers with the hook's code
\* (500 if it is not positive) and returns.  No lock is taken.
ServeCheck(i) ==
    /\ ~panicked
    /\ h[i].pc = "start"
    /\ \E r \in check(hookSet) :
          /\ r[2]
          /\ hookRet' = [hookRet EXCEPT ![i] = r]
          /\ h' = [h EXCEPT ![i] = [pc |-> "returned", code |-> checkStatus(r[1]), msg |-> "check"]]
    /\ UNCHANGED <<cfgVars, useVars, pairVars, lstVars, panicked, g, chanVars, acc, ctx, clo, histVars>>

\* len(lst.inc) == cap(lst.inc)
QueueFullOffByOne(q, c) == Len(q) > c
QueueFullNever(q, c) == FALSE
QueueFull(q, c) == Len(q) = c

\* if lst.closed
ListenerClosedIgnored == FALSE
ListenerClosed == closed

\* The hook passes; lst.mu.Lock(); the closed and queue-full tests of the locked
\* section; then lst.u.Upgrade, still under the mutex (a failed upgrade has sent
\* its own answer).  The hook and the upgrade touch nothing shared, so they are
\* taken in one step with the tests.
ServeLock(i) ==
    /\ ~panicked
    /\ h[i].pc = "start"
    /\ \E r \in check(hookSet) : ~r[2] /\ hookRet' = [hookRet EXCEPT ![i] = r]
    /\ mu = Free
    /\ IF ListenerClosed
       THEN /\ h' = [h EXCEPT ![i] = [pc |-> "returned", code |-> StatusInternalServerError,
                                      msg |-> "listener is closed"]]
            /\ UNCHANGED <<mu, conn>>
       ELSE IF QueueFull(inc, cap)
       THEN /\ h' = [h EXCEPT ![i] = [pc |-> "returned", code |-> StatusServiceUnavailable,
                                      msg |-> "connection queue is full"]]
            /\ UNCHANGED <<mu, conn>>
       ELSE \E ok \in BOOLEAN :
               IF ok
               THEN /\ conn' = [conn EXCEPT ![i] = "open"]
                    /\ h' = [h EXCEPT ![i].pc = "send"]
                    /\ mu' = Handler(i)
               ELSE /\ conn' = conn
                    /\ h' = [h EXCEPT ![i] = [pc |-> "returned", code |-> 0, msg |-> "upgrade failed"]]
                    /\ mu' = Free
    /\ UNCHANGED <<cfgVars, useVars, pairVars, inc, incClosed, closed, wg, panicked, g, chDone, chField, acc, ctx, clo, histVars>>

\* ch := New(conn); lst.inc <- ch; the deferred Unlock.  A send blocks while the
\* buffer is full and panics on a closed channel.
ServeSend(i) ==
    /\ ~panicked
    /\ h[i].pc = "send"
    /\ mu = Handler(i)
    /\ IF incClosed
       THEN /\ panicked' = TRUE
            /\ UNCHANGED <<inc, mu, h, chDone, chField, enq>>
       ELSE /\ Len(inc) < cap
            /\ chDone' = [chDone EXCEPT ![i] = "open"]
            /\ chField' = [chField EXCEPT ![i] = TRUE]
            /\ inc' = Append(inc, i)
            /\ enq' = Append(enq, i)
            /\ mu' = Free
            /\ h' = [h EXCEPT ![i].pc = "wait"]
            /\ panicked' = panicked
    /\ UNCHANGED <<cfgVars, useVars, pairVars, hookRet, incClosed, closed, wg, g, conn, acc, ctx, clo, deq, drained, closeCalls, closeRets>>

\* <-done: ServeHTTP returns once the Channel's done has been closed.
DoneNotAwaited(i) == TRUE
DoneFired(i) == chDone[i] = "fired"

ServeWait(i) ==
    /\ ~panicked
    /\ h[i].pc = "wait"
    /\ DoneFired(i)
    /\ h' = [h EXCEPT ![i].pc = "returned"]
    /\ UNCHANGED <<cfgVars, useVars, pairVars, hookRet, lstVars, panicked, g, chanVars, acc, ctx, clo, histVars>>

\* --------------------------------------------------------- Listener.Accept
\* The caller's context is cancelled or expires (before or during the call).
Cancel(a) ==
    /\ ~panicked
    /\ acc[a].pc = "select"
    /\ ~ctx[a]
    /\ ctx' = [ctx EXCEPT ![a] = TRUE]
    /\ UNCHANGED <<cfgVars, useVars, pairVars, hookRet, lstVars, panicked, h, g, chanVars, acc, clo, histVars>>

\* case <-ctx.Done(): return nil, ctx.Err()
AcceptCtxTakesHead(a) ==
    /\ ~panicked
    /\ acc[a].pc = "select"
    /\ ctx[a]
    /\ acc' = [acc EXCEPT ![a] = [pc |-> "done", ch |-> 0, err |-> "ctx", werr |-> FALSE]]
    /\ inc' = IF inc = <<>> THEN inc ELSE Tail(inc)
    /\ UNCHANGED <<cfgVars, useVars, pairVars, hookRet, incClosed, closed, mu, wg, panicked, h, g, chanVars, ctx, clo, histVars>>

AcceptCtx(a) ==
    /\ ~panicked
    /\ acc[a].pc = "select"
    /\ ctx[a]
    /\ acc' = [acc EXCEPT ![a] = [pc |-> "done", ch |-> 0, err |-> "ctx", werr |-> FALSE]]
    /\ UNCHANGED <<cfgVars, useVars, pairVars, hookRet, lstVars, panicked, h, g, chanVars, ctx, clo, histVars>>

\* A receive from a non-empty inc: <<the Channel received, the queue left>>.
RecvPeek(q) == <<Head(q), q>>
RecvNewest(q) == <<q[Len(q)], SubSeq(q, 1, Len(q) - 1)>>
Recv(q) == <<Head(q), Tail(q)>>

\* A receive from an empty inc is ready, with !ok, exactly when inc is closed.
RecvClosedBlocks(q, c) == FALSE
RecvClosedOrEmpty(q, c) == q = <<>>
RecvClosed(q, c) == q = <<>> /\ c

\* case sc, ok := <-lst.inc: a queued Channel, or !ok once inc is closed and empty.
AcceptRecv(a) ==
    /\ ~panicked
    /\ acc[a].pc = "select"
    /\ IF inc # <<>>
       THEN /\ acc' = [acc EXCEPT ![a] = [pc |-> "got", ch |-> Recv(inc)[1], err |-> "", werr |-> FALSE]]
            /\ ctx' = [ctx EXCEPT ![a] = FALSE]
            /\ inc' = Recv(inc)[2]
            /\ deq' = Append(deq, Recv(inc)[1])
       ELSE /\ RecvClosed(inc, incClosed)
            /\ acc' = [acc EXCEPT ![a] = [pc |-> "done", ch |-> 0, err |-> "ErrListenerClosed", werr |-> FALSE]]
            /\ ctx' = [ctx EXCEPT ![a] = FALSE]
            /\ UNCHANGED <<inc, deq>>
    /\ UNCHANGED <<cfgVars, useVars, pairVars, hookRet, incClosed, closed, mu, wg, panicked, h, g, chanVars, clo,
                   enq, drained, closeCalls, closeRets>>

\* The consumer that accepted a Channel calls Close on it (MaxPending revision).
ConsumerClose(a) ==
    /\ ~panicked
    /\ acc[a].pc = "got"
    /\ closeCalls' = [closeCalls EXCEPT ![acc[a].ch] = @ + 1]
    /\ IF CloseRead(acc[a].ch)
       THEN /\ acc' = [acc EXCEPT ![a].pc = "c1"]
            /\ closeRets' = closeRets
       ELSE /\ acc' = [acc EXCEPT ![a].pc = "done"]
            /\ closeRets' = [closeRets EXCEPT ![acc[a].ch] = @ + 1]
    /\ UNCHANGED <<cfgVars, useVars, pairVars, hookRet, lstVars, panicked, h, g, chanVars, ctx, clo, enq, deq, drained>>

ConsumerCloseDone(a) ==
    /\ ~panicked
    /\ acc[a].pc = "c1"
    /\ CloseDone(acc[a].ch)
    /\ acc' = [acc EXCEPT ![a].pc = IF panicked' THEN @ ELSE "c2"]
    /\ UNCHANGED <<cfgVars, useVars, pairVars, hookRet, lstVars, h, g, ctx, clo, histVars>>

ConsumerCloseFinish(a) ==
    /\ ~panicked
    /\ acc[a].pc = "c2"
    /\ CloseFinish(acc[a].ch)
    /\ acc' = [acc EXCEPT ![a].pc = "done"]
    /\ closeRets' = [closeRets EXCEPT ![acc[a].ch] = @ + 1]
    /\ UNCHANGED <<cfgVars, useVars, pairVars, hookRet, lstVars, h, g, ctx, clo, enq, deq, drained, closeCalls>>

\* --------------------------------------------------------- Listener.Close
\* The range loop over inc ends when inc is closed and empty.
RangeDoneEarly(q) == Len(q) <= 1
RangeDone(q) == q = <<>>

\* lst.closed = true
ClosedNotSet == FALSE
ClosedAfterClose == TRUE

\* lst.mu.Lock(); if lst.closed { return ErrListenerClosed }; close(lst.inc)
CloseBegin(k) ==
    /\ ~panicked
    /\ clo[k].pc = "idle"
    /\ mu = Free
    /\ IF ListenerClosed
       THEN /\ clo' = [clo EXCEPT ![k] = [pc |-> "returned", res |-> "ErrListenerClosed",
                                          cur |-> 0, werr |-> FALSE]]
            /\ UNCHANGED <<mu, incClosed, panicked>>
       ELSE IF incClosed
       THEN /\ panicked' = TRUE
            /\ UNCHANGED <<mu, incClosed, clo>>
       ELSE /\ incClosed' = TRUE
            /\ mu' = Closer(k)
            /\ clo' = [clo EXCEPT ![k].pc = "drain"]
            /\ panicked' = panicked
    /\ UNCHANGED <<cfgVars, useVars, pairVars, hookRet, inc, closed, wg, h, g, chanVars, acc, ctx, histVars>>

\* for ch := range lst.inc { ch.Close() }; lst.closed = true; return cerr
\* One turn of the loop receives a Channel and enters its Close; the loop ends
\* when the closed queue is empty.
CloseDrain(k) ==
    /\ ~panicked
    /\ clo[k].pc = "drain"
    /\ mu = Closer(k)
    /\ IF ~RangeDone(inc)
       THEN /\ inc' = Recv(inc)[2]
            /\ drained' = drained \cup {Recv(inc)[1]}
            /\ closeCalls' = [closeCalls EXCEPT ![Recv(inc)[1]] = @ + 1]
            /\ IF CloseRead(Recv(inc)[1])
               THEN /\ clo' = [clo EXCEPT ![k].pc = "c1", ![k].cur = Recv(inc)[1]]
                    /\ closeRets' = closeRets
               ELSE /\ clo' = clo
                    /\ closeRets' = [closeRets EXCEPT ![Recv(inc)[1]] = @ + 1]
            /\ UNCHANGED <<closed, mu>>
       ELSE /\ closed' = ClosedAfterClose
            /\ mu' = Free
            /\ clo' = [clo EXCEPT ![k].pc = "returned", ![k].res = "nil"]
            /\ UNCHANGED <<inc, drained, closeCalls, closeRets>>
    /\ UNCHANGED <<cfgVars, useVars, pairVars, hookRet, incClosed, wg, panicked, h, g, chanVars, acc, ctx, enq, deq>>

CloseDrainDone(k) ==
    /\ ~panicked
    /\ clo[k].pc = "c1"
    /\ CloseDone(clo[k].cur)
    /\ clo' = [clo EXCEPT ![k].pc = IF panicked' THEN @ ELSE "c2"]
    /\ UNCHANGED <<cfgVars, useVars, pairVars, hookRet, lstVars, h, g, acc, ctx, histVars>>

CloseDrainFinish(k) ==
    /\ ~panicked
    /\ clo[k].pc = "c2"
    /\ CloseFinish(clo[k].cur)
    /\ clo' = [clo EXCEPT ![k].pc = "drain", ![k].cur = 0]
    /\ closeRets' = [closeRets EXCEPT ![clo[k].cur] = @ + 1]
    /\ UNCHANGED <<cfgVars, useVars, pairVars, hookRet, lstVars, h, g, acc, ctx, enq, deq, drained, closeCalls>>

\* ------------------------------------------------------------ the listener
Next ==
    \/ \E i \in Conns : ServeCheck(i)
    \/ \E i \in Conns : ServeLock(i)
    \/ \E i \in Conns : ServeSend(i)
    \/ \E i \in Conns : ServeWait(i)
    \/ \E a \in Acceptors : Cancel(a)
    \/ \E a \in Acceptors : AcceptCtx(a)
    \/ \E a \in Acceptors : AcceptRecv(a)
    \/ \E a \in Acceptors : ConsumerClose(a)
    \/ \E a \in Acceptors : ConsumerCloseDone(a)
    \/ \E a \in Acceptors : ConsumerCloseFinish(a)
    \/ \E k \in Closers : CloseBegin(k)
    \/ \E k \in Closers : CloseDrain(k)
    \/ \E k \in Closers : CloseDrainDone(k)
    \/ \E k \in Closers : CloseDrainFinish(k)

Spec == Init /\ [][Next]_vars

\* ====================================================== WaitGroup listener
\* NewListener of the WaitGroup revision: inc: make(chan *Channel, 1).
NewListenerWG ==
    /\ cap = WGQueueCap
    /\ hookSet \in BOOLEAN
    /\ InitCommon

\* --------------------------------------- Channel.Close, close-message revision
\*   err := c.c.WriteMessage(websocket.CloseMessage, closeMessage)   (CloseWrite)
\*   cerr := c.c.Close()                                             (CloseConn)
\*   if err != nil { return err }                                    (CloseSignal)
\*   if c.done != nil { close(c.done) }                              (CloseSignal)
\* The write fails on a transport that is no longer open, and may fail on an
\* open one (the peer is gone, the network fails).
CloseWrite(ch) == IF conn[ch] = "open" THEN BOOLEAN ELSE {TRUE}

CloseConn(ch) ==
    /\ conn' = [conn EXCEPT ![ch] = "closed"]
    /\ UNCHANGED <<chDone, chField, panicked>>

CloseSignal(ch, werr) ==
    IF werr \/ ~chField[ch]
    THEN UNCHANGED <<chanVars, panicked>>
    ELSE IF chDone[ch] = "fired"
    THEN /\ panicked' = TRUE
         /\ UNCHANGED chanVars
    ELSE /\ chDone' = [chDone EXCEPT ![ch] = "fired"]
         /\ UNCHANGED <<panicked, chField, conn>>

\* --------------------------------------------------- ServeHTTP, add
\* The hook passes and lst.u.Upgrade runs, before add and outside the mutex.
WGServeUpgrade(i) ==
    /\ ~panicked
    /\ h[i].pc = "start"
    /\ \E r \in check(hookSet) : ~r[2] /\ hookRet' = [hookRet EXCEPT ![i] = r]
    /\ \E ok \in BOOLEAN :
          IF ok
          THEN /\ conn' = [conn EXCEPT ![i] = "open"]
               /\ h' = [h EXCEPT ![i].pc = "add"]
          ELSE /\ conn' = conn
               /\ h' = [h EXCEPT ![i] = [pc |-> "returned", code |-> 0, msg |-> "upgrade failed"]]
    /\ UNCHANGED <<cfgVars, useVars, pairVars, lstVars, panicked, g, chDone, chField, acc, ctx, clo, histVars>>

\* add(conn): under the mutex, ErrListenerClosed if lst.closed; otherwise
\* wg.Add(1), make done and start the goroutine that sends the Channel.
add(i) ==
    /\ ~panicked
    /\ h[i].pc = "add"
    /\ mu = Free
    /\ IF ListenerClosed
       THEN /\ h' = [h EXCEPT ![i] = [pc |-> "returned", code |-> StatusInternalServerError,
                                      msg |-> "listener is closed"]]
            /\ UNCHANGED <<wg, g, chDone, chField>>
       ELSE /\ wg' = wg + 1
            /\ chDone' = [chDone EXCEPT ![i] = "open"]
            /\ chField' = [chField EXCEPT ![i] = TRUE]
            /\ g' = [g EXCEPT ![i] = "send"]
            /\ h' = [h EXCEPT ![i].pc = "wait"]
    /\ UNCHANGED <<cfgVars, useVars, pairVars, hookRet, inc, incClosed, closed, mu, panicked, conn, acc, ctx, clo, histVars>>

\* The goroutine of add: lst.inc <- &Channel{c: conn, done: done}.  The send
\* blocks while the buffer is full and panics once inc has been closed.
GoSend(i) ==
    /\ ~panicked
    /\ g[i] = "send"
    /\ IF incClosed
       THEN /\ panicked' = TRUE
            /\ UNCHANGED <<inc, g, enq>>
       ELSE /\ Len(inc) < cap
            /\ inc' = Append(inc, i)
            /\ enq' = Append(enq, i)
            /\ g' = [g EXCEPT ![i] = "wait"]
            /\ panicked' = panicked
    /\ UNCHANGED <<cfgVars, useVars, pairVars, hookRet, incClosed, closed, mu, wg, h, chanVars, acc, ctx, clo,
                   deq, drained, closeCalls, closeRets>>

\* The goroutine of add: <-done, then the deferred lst.wg.Done().
GoWait(i) ==
    /\ ~panicked
    /\ g[i] = "wait"
    /\ DoneFired(i)
    /\ wg' = wg - 1
    /\ g' = [g EXCEPT ![i] = "done"]
    /\ UNCHANGED <<cfgVars, useVars, pairVars, hookRet, inc, incClosed, closed, mu, panicked, h, chanVars, acc, ctx, clo, histVars>>

\* ------------------------------------------- the consumer closes its Channel
WGConsumerClose(a) ==
    /\ ~panicked
    /\ acc[a].pc = "got"
    /\ closeCalls' = [closeCalls EXCEPT ![acc[a].ch] = @ + 1]
    /\ \E werr \in CloseWrite(acc[a].ch) :
          acc' = [acc EXCEPT ![a].pc = "b1", ![a].werr = werr]
    /\ UNCHANGED <<cfgVars, useVars, pairVars, hookRet, lstVars, panicked, h, g, chanVars, ctx, clo, enq, deq, drained, closeRets>>

WGConsumerCloseConn(a) ==
    /\ ~panicked
    /\ acc[a].pc = "b1"
    /\ CloseConn(acc[a].ch)
    /\ acc' = [acc EXCEPT ![a].pc = "b2"]
    /\ UNCHANGED <<cfgVars, useVars, pairVars, hookRet, lstVars, h, g, ctx, clo, histVars>>

WGConsumerCloseSignal(a) ==
    /\ ~panicked
    /\ acc[a].pc = "b2"
    /\ CloseSignal(acc[a].ch, acc[a].werr)
    /\ acc' = [acc EXCEPT ![a].pc = IF panicked' THEN @ ELSE "done"]
    /\ closeRets' = [closeRets EXCEPT ![acc[a].ch] = IF panicked' THEN @ ELSE @ + 1]
    /\ UNCHANGED <<cfgVars, useVars, pairVars, hookRet, lstVars, h, g, ctx, clo, enq, deq, drained, closeCalls>>

\* ---------------------------------------------------------- Listener.Close
\* lst.mu.Lock(); if lst.closed { return ErrListenerClosed }; close(lst.inc).
\* The deferred calls run last-first: lst.wg.Wait(), then lst.mu.Unlock(); both
\* returns go through them.
WGCloseBegin(k) ==
    /\ ~panicked
    /\ clo[k].pc = "idle"
    /\ mu = Free
    /\ IF ListenerClosed
       THEN /\ clo' = [clo EXCEPT ![k].pc = "wgwait", ![k].res = "ErrListenerClosed"]
            /\ mu' = Closer(k)
            /\ UNCHANGED <<incClosed, panicked>>
       ELSE IF incClosed
       THEN /\ panicked' = TRUE
            /\ UNCHANGED <<mu, incClosed, clo>>
       ELSE /\ incClosed' = TRUE
            /\ mu' = Closer(k)
            /\ clo' = [clo EXCEPT ![k].pc = "drain"]
            /\ panicked' = panicked
    /\ UNCHANGED <<cfgVars, useVars, pairVars, hookRet, inc, closed, wg, h, g, chanVars, acc, ctx, histVars>>

\* for ch := range lst.inc { ch.Close() }; lst.closed = true; return nil
WGCloseDrain(k) ==
    /\ ~panicked
    /\ clo[k].pc = "drain"
    /\ mu = Closer(k)
    /\ IF ~RangeDone(inc)
       THEN /\ inc' = Recv(inc)[2]
            /\ drained' = drained \cup {Recv(inc)[1]}
            /\ closeCalls' = [closeCalls EXCEPT ![Recv(inc)[1]] = @ + 1]
            /\ \E werr \in CloseWrite(Recv(inc)[1]) :
                  clo' = [clo EXCEPT ![k].pc = "b1", ![k].cur = Recv(inc)[1], ![k].werr = werr]
            /\ UNCHANGED closed
       ELSE /\ closed' = ClosedAfterClose
            /\ clo' = [clo EXCEPT ![k].pc = "wgwait", ![k].res = "nil"]
            /\ UNCHANGED <<inc, drained, closeCalls>>
    /\ UNCHANGED <<cfgVars, useVars, pairVars, hookRet, incClosed, mu, wg, panicked, h, g, chanVars, acc, ctx, enq, deq, closeRets>>

WGCloseDrainConn(k) ==
    /\ ~panicked
    /\ clo[k].pc = "b1"
    /\ CloseConn(clo[k].cur)
    /\ clo' = [clo EXCEPT ![k].pc = "b2"]
    /\ UNCHANGED <<cfgVars, useVars, pairVars, hookRet, lstVars, h, g, acc, ctx, histVars>>

WGCloseDrainSignal(k) ==
    /\ ~panicked
    /\ clo[k].pc = "b2"
    /\ CloseSignal(clo[k].cur, clo[k].werr)
    /\ clo' = [clo EXCEPT ![k].pc = IF panicked' THEN @ ELSE "drain",
                          ![k].cur = IF panicked' THEN @ ELSE 0,
                          ![k].werr = IF panicked' THEN @ ELSE FALSE]
    /\ closeRets' = [closeRets EXCEPT ![clo[k].cur] = IF panicked' THEN @ ELSE @ + 1]
    /\ UNCHANGED <<cfgVars, useVars, pairVars, hookRet, lstVars, h, g, acc, ctx, enq, deq, drained, closeCalls>>

\* The deferred lst.wg.Wait(), with the mutex still held, then lst.mu.Unlock().
WGCloseWait(k) ==
    /\ ~panicked
    /\ clo[k].pc = "wgwait"
    /\ mu = Closer(k)
    /\ wg = 0
    /\ mu' = Free
    /\ clo' = [clo EXCEPT ![k].pc = "returned"]
    /\ UNCHANGED <<cfgVars, useVars, pairVars, hookRet, inc, incClosed, closed, wg, panicked, h, g, chanVars, acc, ctx, histVars>>

NextWG ==
    \/ \E i \in Conns : ServeCheck(i)
    \/ \E i \in Conns : WGServeUpgrade(i)
    \/ \E i \in Conns : add(i)
    \/ \E i \in Conns : GoSend(i)
    \/ \E i \in Conns : GoWait(i)
    \/ \E i \in Conns : ServeWait(i)
    \/ \E a \in Acceptors : Cancel(a)
    \/ \E a \in Acceptors : AcceptCtx(a)
    \/ \E a \in Acceptors : AcceptRecv(a)
    \/ \E a \in Acceptors : WGConsumerClose(a)
    \/ \E a \in Acceptors : WGConsumerCloseConn(a)
    \/ \E a \in Acceptors : WGConsumerCloseSignal(a)
    \/ \E k \in Closers : WGCloseBegin(k)
    \/ \E k \in Closers : WGCloseDrain(k)
    \/ \E k \in Closers : WGCloseDrainConn(k)
    \/ \E k \in Closers : WGCloseDrainSignal(k)
    \/ \E k \in Closers : WGCloseWait(k)

SpecWG == NewListenerWG /\ [][NextWG]_vars

\* The WaitGroup listener under fair scheduling: every goroutine that can take
\* a step eventually takes it (the handlers past their upgrade, the goroutines
\* of add, Listener.Close once it holds the mutex), and every consumer that was
\* handed a Channel calls Close on it and lets the call run to its end.  When
\* attempts arrive, when Accept is called and when a context ends is left to
\* the environment.
FairnessWG ==
    /\ \A i \in Conns : WF_vars(add(i)) /\ WF_vars(GoSend(i)) /\ WF_vars(GoWait(i))
                        /\ WF_vars(ServeWait(i))
    /\ \A a \in Acceptors : WF_vars(WGConsumerClose(a)) /\ WF_vars(WGConsumerCloseConn(a))
                            /\ WF_vars(WGConsumerCloseSignal(a))
    /\ \A k \in Closers : WF_vars(WGCloseDrain(k)) /\ WF_vars(WGCloseDrainConn(k))
                          /\ WF_vars(WGCloseDrainSignal(k)) /\ WF_vars(WGCloseWait(k))

FairSpecWG == SpecWG /\ FairnessWG

\* ============================================= a Channel used on its own
\* A Channel made by New (by Dial on the client side, or one an Accept call
\* handed out) in the hands of NumUsers goroutines that call Close, Done, Send
\* and Recv on it in any order and any interleaving, with its peer free to
\* close the websocket.  Channel of the MaxPending revision.
dialed == CHOOSE i \in Conns : TRUE

\* The listener's part of the state, which a Channel's methods leave alone.
lsnVars == <<cfgVars, lstVars, h, g, acc, ctx, clo, enq, deq, drained>>

\* New(conn): &Channel{c: conn, done: make(chan struct{})}
New ==
    /\ cap = DefaultPending
    /\ hookSet = FALSE
    /\ inc = <<>>
    /\ incClosed = FALSE
    /\ closed = FALSE
    /\ mu = Free
    /\ wg = 0
    /\ panicked = FALSE
    /\ h = [i \in Conns |-> [pc |-> "start", code |-> 0, msg |-> ""]]
    /\ g = [i \in Conns |-> "none"]
    /\ chDone = [i \in Conns |-> IF i = dialed THEN "open" ELSE "none"]
    /\ chField = [i \in Conns |-> i = dialed]
    /\ conn = [i \in Conns |-> IF i = dialed THEN "open" ELSE "none"]
    /\ acc = [a \in Acceptors |-> [pc |-> "select", ch |-> 0, err |-> "", werr |-> FALSE]]
    /\ ctx = [a \in Acceptors |-> FALSE]
    /\ clo = [k \in Closers |-> [pc |-> "idle", res |-> "", cur |-> 0, werr |-> FALSE]]
    /\ enq = <<>>
    /\ deq = <<>>
    /\ drained = {}
    /\ closeCalls = [i \in Conns |-> 0]
    /\ closeRets = [i \in Conns |-> 0]
    /\ usr = [x \in Users |-> [pc |-> "idle", ret |-> "", sig |-> "none", obs |-> FALSE,
                           io |-> "", raw |-> ""]]
    /\ peerClosed = FALSE
    /\ wire = [e \in Ends |-> <<>>]
    /\ sent = [e \in Ends |-> <<>>]
    /\ rcvd = [e \in Ends |-> <<>>]
    /\ hookRet = [i \in Conns |-> <<>>]

\* Close(): the test of c.done; a nil c.done skips the body and returns nil.
ChClose(x) ==
    /\ ~panicked
    /\ usr[x].pc = "idle"
    /\ closeCalls[dialed] < MaxCloseCalls
    /\ closeCalls' = [closeCalls EXCEPT ![dialed] = @ + 1]
    /\ IF CloseRead(dialed)
       THEN /\ usr' = [usr EXCEPT ![x].pc = "c1", ![x].ret = ""]
            /\ closeRets' = closeRets
       ELSE /\ usr' = [usr EXCEPT ![x].ret = "nil"]
            /\ closeRets' = [closeRets EXCEPT ![dialed] = @ + 1]
    /\ UNCHANGED <<lsnVars, pairVars, hookRet, chanVars, panicked, peerClosed>>

\* close(c.done)
ChCloseDone(x) ==
    /\ ~panicked
    /\ usr[x].pc = "c1"
    /\ CloseDone(dialed)
    /\ usr' = [usr EXCEPT ![x].pc = IF panicked' THEN @ ELSE "c2"]
    /\ UNCHANGED <<lsnVars, pairVars, hookRet, closeCalls, closeRets, peerClosed>>

\* go c.c.Close(websocket.StatusNormalClosure, "bye"); c.done = nil; return nil
ChCloseFinish(x) ==
    /\ ~panicked
    /\ usr[x].pc = "c2"
    /\ CloseFinish(dialed)
    /\ usr' = [usr EXCEPT ![x].pc = "idle", ![x].ret = "nil"]
    /\ closeRets' = [closeRets EXCEPT ![dialed] = @ + 1]
    /\ UNCHANGED <<lsnVars, pairVars, hookRet, closeCalls, peerClosed>>

\* The goroutine started by Close runs c.c.Close to its end: the close
\* handshake is done or given up and the transport is closed.
ConnCloseNever == FALSE
ConnCloseStarted == conn[dialed] = "closing"

ConnClose ==
    /\ ~panicked
    /\ ConnCloseStarted
    /\ conn' = [conn EXCEPT ![dialed] = "closed"]
    /\ UNCHANGED <<lsnVars, pairVars, hookRet, chDone, chField, panicked, closeCalls, closeRets, useVars>>

\* Done(): return c.done, which is nil once a Close call has cleared it.
DoneOf(ch) == IF chField[ch] THEN "chan" ELSE "nil"

ChDone(x) ==
    /\ ~panicked
    /\ usr[x].pc = "idle"
    /\ usr[x].sig = "none"
    /\ usr' = [usr EXCEPT ![x].sig = DoneOf(dialed)]
    /\ UNCHANGED <<lsnVars, pairVars, hookRet, chanVars, panicked, closeCalls, closeRets, peerClosed>>

\* <-done on the signal Done returned: a receive from a closed channel is
\* ready, a receive from an open or a nil channel is not.
SigReady(x) == usr[x].sig = "chan" /\ chDone[dialed] = "fired"

ChObserve(x) ==
    /\ ~panicked
    /\ usr[x].pc = "idle"
    /\ ~usr[x].obs
    /\ SigReady(x)
    /\ usr' = [usr EXCEPT ![x].obs = TRUE]
    /\ UNCHANGED <<lsnVars, pairVars, hookRet, chanVars, panicked, closeCalls, closeRets, peerClosed>>

\* The peer closes the websocket: its close frame reaches this side.
PeerClose ==
    /\ ~panicked
    /\ ~peerClosed
    /\ conn[dialed] # "closed"
    /\ peerClosed' = TRUE
    /\ UNCHANGED <<lsnVars, pairVars, hookRet, chanVars, panicked, closeCalls, closeRets, usr>>

\* What c.c.Write and c.c.Read can return.  After the peer's close frame the
\* websocket reports a websocket.CloseError value; once this side's c.c.Close
\* has run it reports net.ErrClosed (what the test reads after Close).  While
\* the goroutine started by Close has yet to run c.c.Close, the connection
\* still works.
ConnResults(ch) ==
    (IF peerClosed THEN {"CloseError"} ELSE {})
    \cup (IF conn[ch] \in {"closing", "closed"} THEN {"net.ErrClosed"} ELSE {})
    \cup (IF conn[ch] \in {"open", "closing"} /\ ~peerClosed THEN {"nil"} ELSE {})

\* filterErr: errors.Is(err, (*websocket.CloseError)(nil)) compares the errors
\* of err's chain with a nil *CloseError; it is true of that nil pointer only,
\* not of a CloseError value.
filterErr(err) == IF err = "(*CloseError)(nil)" THEN "net.ErrClosed" ELSE err

\* Send(data): filterErr(c.c.Write(...))
ChSend(x) ==
    /\ ~panicked
    /\ usr[x].pc = "idle"
    /\ \E err \in ConnResults(dialed) :
          usr' = [usr EXCEPT ![x].io = filterErr(err), ![x].raw = err]
    /\ UNCHANGED <<lsnVars, pairVars, hookRet, chanVars, panicked, closeCalls, closeRets, peerClosed>>

\* Recv(): c.c.Read(...), with filterErr on its error
ChRecv(x) ==
    /\ ~panicked
    /\ usr[x].pc = "idle"
    /\ \E err \in ConnResults(dialed) :
          usr' = [usr EXCEPT ![x].io = IF err # "nil" THEN filterErr(err) ELSE "nil",
                             ![x].raw = err]
    /\ UNCHANGED <<lsnVars, pairVars, hookRet, chanVars, panicked, closeCalls, closeRets, peerClosed>>

NextCh ==
    \/ \E x \in Users : ChClose(x)
    \/ \E x \in Users : ChCloseDone(x)
    \/ \E x \in Users : ChCloseFinish(x)
    \/ ConnClose
    \/ \E x \in Users : ChDone(x)
    \/ \E x \in Users : ChObserve(x)
    \/ PeerClose
    \/ \E x \in Users : ChSend(x)
    \/ \E x \in Users : ChRecv(x)

SpecCh == New /\ [][NextCh]_vars

\* The goroutine that Close starts is scheduled: it runs c.c.Close to its end.
FairSpecCh == SpecCh /\ WF_vars(ConnClose)

\* ============================================ Send and Recv on given errors
\* The error values c.c.Write and c.c.Read can hand to filterErr: nil; a
\* websocket.CloseError value (the peer's close frame); a non-nil
\* *websocket.CloseError; the nil *websocket.CloseError that filterErr names;
\* net.ErrClosed; any other error (io.EOF).
TransportErrs == {"nil", "CloseError", "&CloseError", "(*CloseError)(nil)", "net.ErrClosed", "EOF"}

\* A Channel from New whose next transport call, for each goroutine, returns
\* the error drawn for it.
NewWithErrs ==
    /\ cap = DefaultPending
    /\ hookSet = FALSE
    /\ inc = <<>>
    /\ incClosed = FALSE
    /\ closed = FALSE
    /\ mu = Free
    /\ wg = 0
    /\ panicked = FALSE
    /\ h = [i \in Conns |-> [pc |-> "start", code |-> 0, msg |-> ""]]
    /\ g = [i \in Conns |-> "none"]
    /\ chDone = [i \in Conns |-> IF i = dialed THEN "open" ELSE "none"]
    /\ chField = [i \in Conns |-> i = dialed]
    /\ conn = [i \in Conns |-> IF i = dialed THEN "open" ELSE "none"]
    /\ acc = [a \in Acceptors |-> [pc |-> "select", ch |-> 0, err |-> "", werr |-> FALSE]]
    /\ ctx = [a \in Acceptors |-> FALSE]
    /\ clo = [k \in Closers |-> [pc |-> "idle", res |-> "", cur |-> 0, werr |-> FALSE]]
    /\ enq = <<>>
    /\ deq = <<>>
    /\ drained = {}
    /\ closeCalls = [i \in Conns |-> 0]
    /\ closeRets = [i \in Conns |-> 0]
    /\ usr \in [Users -> {[pc |-> "idle", ret |-> "", sig |-> "none", obs |-> FALSE,
                           io |-> "", raw |-> e] : e \in TransportErrs}]
    /\ peerClosed = FALSE
    /\ wire = [e \in Ends |-> <<>>]
    /\ sent = [e \in Ends |-> <<>>]
    /\ rcvd = [e \in Ends |-> <<>>]
    /\ hookRet = [i \in Conns |-> <<>>]

\* Send(data): return filterErr(c.c.Write(...))
SendErr(x) ==
    /\ usr[x].pc = "idle"
    /\ usr' = [usr EXCEPT ![x].pc = "sent", ![x].io = filterErr(usr[x].raw)]
    /\ UNCHANGED <<lsnVars, pairVars, hookRet, chanVars, panicked, closeCalls, closeRets, peerClosed>>

\* Recv(): _, bits, err := c.c.Read(...); if err != nil { return nil, filterErr(err) }
RecvErr(x) ==
    /\ usr[x].pc = "idle"
    /\ usr' = [usr EXCEPT ![x].pc = "received",
                          ![x].io = IF usr[x].raw # "nil" THEN filterErr(usr[x].raw) ELSE "nil"]
    /\ UNCHANGED <<lsnVars, pairVars, hookRet, chanVars, panicked, closeCalls, closeRets, peerClosed>>

NextErr ==
    \/ \E x \in Users : SendErr(x)
    \/ \E x \in Users : RecvErr(x)

SpecErr == NewWithErrs /\ [][NextErr]_vars

\* ================================================ a connected pair of Channels
\* The Channel Dial returned and the Channel at the other end of its websocket
\* (TestClientServer), each end sending and receiving from one goroutine.  The
\* websocket carries whole messages, each with its type, in the order written.
Bytes == {0, 255}
Payloads == UNION {[1..n -> Bytes] : n \in 0..MaxPayloadLen}

Peer(e) == CHOOSE p \in Ends : p # e

\* c.c.WriteMessage(websocket.BinaryMessage, data): one binary message holding data.
WriteMessageNonEmpty(q, data) ==
    IF data = <<>> THEN q ELSE Append(q, [type |-> "binary", data |-> data])
WriteMessage(q, data) == Append(q, [type |-> "binary", data |-> data])

\* _, bits, err := c.c.ReadMessage(): the next message; its type is dropped.
ReadMessageKeep(q) == <<Head(q).data, q>>
ReadMessage(q) == <<Head(q).data, Tail(q)>>

\* Send(data) on end e.
PairSend(e) ==
    /\ ~peerClosed
    /\ Len(sent[e]) < MaxMsgs
    /\ \E data \in Payloads :
          /\ wire' = [wire EXCEPT ![Peer(e)] = WriteMessage(@, data)]
          /\ sent' = [sent EXCEPT ![e] = Append(@, data)]
    /\ UNCHANGED <<lsnVars, hookRet, chanVars, panicked, closeCalls, closeRets, useVars, rcvd>>

\* Recv() on end e: blocks until a message has arrived, returns its bytes.
PairRecv(e) ==
    /\ ~peerClosed
    /\ wire[e] # <<>>
    /\ rcvd' = [rcvd EXCEPT ![e] = Append(@, ReadMessage(wire[e])[1])]
    /\ wire' = [wire EXCEPT ![e] = ReadMessage(wire[e])[2]]
    /\ UNCHANGED <<lsnVars, hookRet, chanVars, panicked, closeCalls, closeRets, useVars, sent>>

\* One end closes: the exchange of messages is over.
PairClose ==
    /\ ~peerClosed
    /\ peerClosed' = TRUE
    /\ UNCHANGED <<lsnVars, hookRet, chanVars, panicked, closeCalls, closeRets, usr, pairVars>>

NextPair ==
    \/ \E e \in Ends : PairSend(e)
    \/ \E e \in Ends : PairRecv(e)
    \/ PairClose

SpecPair == New /\ [][NextPair]_vars

\* ================================================================ claims
Range(q) == {q[n] : n \in DOMAIN q}

\* The response ServeHTTP writes and returns with, without upgrading.
QueueFullResp == [pc |-> "returned", code |-> StatusServiceUnavailable,
                  msg |-> "connection queue is full"]
ListenerClosedResp == [pc |-> "returned", code |-> StatusInternalServerError,
                       msg |-> "listener is closed"]

\* ServeHTTP invocation i leaves its start with the hook passed (or never asked).
PassesHook(i) == h[i].pc = "start" /\ h'[i].pc # "start" /\ h'[i].msg # "check"

\* C1: with queue capacity cap and the listener open, an attempt that passes
\* the hook when fewer than cap Channels are queued is admitted (it holds the
\* mutex with its upgrade done, its send cannot block, and the send puts its
\* Channel at the tail of the queue), and one that arrives when cap Channels
\* are queued is answered 503 "connection queue is full", returns at once and
\* leaves the queue as it was.  A receive by Accept makes room again.  (An
\* attempt whose upgrade fails has been answered by the upgrader.)
C1_Backpressure ==
    /\ [](\A i \in Conns : h[i].pc = "send" => Len(inc) < cap /\ ~incClosed /\ mu = Handler(i))
    /\ [][\A i \in Conns :
            /\ (PassesHook(i) /\ ~closed /\ Len(inc) >= cap) =>
                  /\ h'[i] = QueueFullResp
                  /\ inc' = inc /\ enq' = enq /\ conn' = conn /\ mu' = mu
            /\ (PassesHook(i) /\ ~closed /\ Len(inc) < cap) =>
                  \/ h'[i].pc = "send" /\ conn'[i] = "open"
                  \/ h'[i].pc = "returned" /\ h'[i].msg = "upgrade failed"
            /\ (h[i].pc = "send" /\ h'[i].pc # "send") =>
                  /\ inc' = Append(inc, i)
                  /\ h'[i].pc = "wait"
                  /\ chDone'[i] = "open"
         ]_vars

\* The default capacity 1: one attempt was refused 503, the queued Channel was
\* then accepted, and a later attempt sits in the queue.
C1_Witness ==
    /\ cap = 1
    /\ \E i \in Conns : h[i] = QueueFullResp
    /\ Len(deq) = 1
    /\ Len(enq) = 2
    /\ inc = <<enq[2]>>

\* Connections upgraded, not returned by Accept and not taken by Close's drain.
Unconsumed == {i \in Conns : conn[i] # "none" /\ i \notin Range(deq) /\ i \notin drained}

\* C2: in every reachable state at most cap connections are upgraded and
\* neither returned by Accept nor taken by the listener's shutdown, and no
\* ServeHTTP invocation is held waiting for a queue slot.
C2_BoundedUnconsumed ==
    /\ Cardinality(Unconsumed) <= cap
    /\ Len(inc) <= cap
    /\ \A i \in Conns : h[i].pc = "send" => Len(inc) < cap

\* A queue of capacity 2 is full and a third attempt was refused.
C2_Witness ==
    /\ cap = 2
    /\ Cardinality(Unconsumed) = 2
    /\ \E i \in Conns : h[i] = QueueFullResp

\* C3: a ServeHTTP invocation whose Channel was enqueued has returned only if
\* Close has been called on that Channel and its done signal has fired.
C3_BlocksUntilClosed ==
    \A i \in Range(enq) :
        h[i].pc = "returned" => closeCalls[i] >= 1 /\ chDone[i] = "fired"

\* One invocation returned after its consumer closed the Channel, another
\* after Listener.Close drained and closed it.
C3_Witness ==
    \E i, j \in Conns :
        /\ i \in Range(deq) /\ h[i].pc = "returned"
        /\ j \in drained /\ h[j].pc = "returned"

\* C4: once a Close call on a listener-created Channel has returned, the
\* Channel's done signal has fired (so the ServeHTTP invocation and the
\* goroutine of add blocked on it can return), whether or not the close
\* message could be sent.
C4_TeardownCompletes ==
    \A i \in Conns : closeRets[i] >= 1 => chDone[i] = "fired"

\* C5: when Listener.Close has returned from a shutdown, the queue is empty and
\* every Channel that was ever enqueued was either returned by Accept or
\* received by the drain, which called Close on it and saw the call return.
C5_CloseDrainsQueue ==
    \A k \in Closers :
        (clo[k].pc = "returned" /\ clo[k].res = "nil") =>
            /\ inc = <<>>
            /\ \A i \in Range(enq) :
                  \/ i \in Range(deq)
                  \/ i \in drained /\ closeCalls[i] >= 1 /\ closeRets[i] >= 1

\* Close returned after draining K = 2 queued Channels.
C5_Witness ==
    /\ \E k \in Closers : clo[k].pc = "returned" /\ clo[k].res = "nil"
    /\ Cardinality(drained) = 2

C7_CloseReturns ==
    \A k \in Closers :
        (clo[k].pc \in {"drain", "b1", "b2", "wgwait"}) ~> (clo[k].pc = "returned")

\* C8: a queued Channel is handed off once: no Channel is both returned by
\* Accept and received by Close's drain, no Channel is returned by two Accept
\* calls, the listener never closes a Channel an Accept call returned, and an
\* enqueued Channel is in exactly one place (queued, accepted or drained).
C8_HandoffOnce ==
    /\ Range(deq) \cap drained = {}
    /\ \A m, n \in DOMAIN deq : m # n => deq[m] # deq[n]
    /\ \A m, n \in DOMAIN inc : m # n => inc[m] # inc[n]
    /\ \A a, b \in Acceptors :
          (a # b /\ acc[a].ch # 0 /\ acc[b].ch # 0) => acc[a].ch # acc[b].ch
    /\ \A a \in Acceptors : acc[a].ch # 0 => acc[a].ch \in Range(deq)
    /\ \A k \in Closers : clo[k].cur # 0 => clo[k].cur \in drained
    /\ Range(inc) \cap (Range(deq) \cup drained) = {}
    /\ Range(enq) = Range(inc) \cup Range(deq) \cup drained
    /\ \A i \in Conns : closeCalls[i] <= 1

\* Close drained the first queued Channel and an Accept call, running during
\* the drain, received the second.
C8_Witness ==
    /\ Len(enq) >= 2
    /\ enq[1] \in drained
    /\ enq[2] \in Range(deq)
    /\ \E a \in Acceptors : acc[a].ch = enq[2]

\* Listener.Close calls that are inside the shutdown or have completed it.
Shutdowns == {k \in Closers : clo[k].pc \in {"drain", "c1", "c2"} \/ clo[k].res = "nil"}

\* C9: the listener goes from open to closed once.  At most one Close call
\* closes and drains the queue; nothing panics; a call that answers
\* ErrListenerClosed comes after a completed shutdown, returns at once and
\* leaves the queue, its closed state and the closed flag as they were; the
\* closed flag is never reset.
C9_CloseOnce ==
    /\ [](~panicked)
    /\ [](Cardinality(Shutdowns) <= 1)
    /\ [](\A k \in Closers :
            clo[k].res = "ErrListenerClosed" =>
                closed /\ \E j \in Closers : j # k /\ clo[j].pc = "returned" /\ clo[j].res = "nil")
    /\ [][\A k \in Closers :
            (clo[k].pc = "idle" /\ clo'[k].pc # "idle" /\ closed) =>
                /\ clo'[k].pc = "returned" /\ clo'[k].res = "ErrListenerClosed"
                /\ inc' = inc /\ incClosed' = incClosed /\ closed' = closed /\ drained' = drained
         ]_vars
    /\ [][(closed => closed') /\ (incClosed => incClosed')]_vars

\* Two Close calls have returned: one did the shutdown, the other got
\* ErrListenerClosed.
C9_Witness ==
    \E j, k \in Closers :
        /\ clo[j].pc = "returned" /\ clo[j].res = "nil"
        /\ clo[k].pc = "returned" /\ clo[k].res = "ErrListenerClosed"

\* C10, as claimed: once Listener.Close has completed, every attempt is
\* answered with the listener-closed outcome, returns, and enqueues nothing.
C10_ClosedRejectsAll ==
    [][\A i \in Conns :
          (closed /\ h[i].pc = "start" /\ h'[i].pc # "start") =>
              h'[i] = ListenerClosedResp /\ inc' = inc
      ]_vars

\* C10, amended: once Listener.Close has completed, no attempt is admitted: an
\* attempt the hook refuses is answered with the hook's status, every other
\* attempt is answered 500 "listener is closed"; either way the handler returns
\* in that step with no upgrade, no Channel and the queue untouched, and the
\* queue stays empty.
C10_ClosedAdmitsNone ==
    /\ [][\A i \in Conns :
            (closed /\ h[i].pc = "start" /\ h'[i].pc # "start") =>
                /\ h'[i].pc = "returned"
                /\ h'[i].msg = "check" \/ h'[i] = ListenerClosedResp
                /\ PassesHook(i) => h'[i] = ListenerClosedResp
                /\ inc' = inc /\ enq' = enq /\ conn' = conn /\ chDone' = chDone /\ mu' = mu
         ]_vars
    /\ [](closed => inc = <<>> /\ \A i \in Conns : h[i].pc # "send")
    /\ [][closed => enq' = enq]_vars

\* After the shutdown one attempt was answered "listener is closed" and another
\* was refused by the hook.
C10_Witness ==
    /\ closed
    /\ \E k \in Closers : clo[k].pc = "returned" /\ clo[k].res = "nil"
    /\ \E i \in Conns : h[i] = ListenerClosedResp
    /\ \E j \in Conns : h[j].pc = "returned" /\ h[j].msg = "check" /\ h[j].code = StatusTeapot

\* C11: once Listener.Close has closed the queue and the queue is empty, the
\* receive of every pending Accept call is ready, and an Accept call whose
\* context is live ends with ErrListenerClosed and no Channel, leaving the
\* queue alone; after Close has returned the queue is closed and empty, so
\* this is the only way such a call ends.  ErrListenerClosed is returned only
\* after a Close call closed the queue.
C11_AcceptReportsShutdown ==
    /\ [](closed => incClosed /\ inc = <<>>)
    /\ [](\A a \in Acceptors :
            (acc[a].pc = "select" /\ incClosed /\ inc = <<>>) => ENABLED AcceptRecv(a))
    /\ [][\A a \in Acceptors :
            (acc[a].pc = "select" /\ ~ctx[a] /\ acc'[a].pc # "select" /\ incClosed /\ inc = <<>>) =>
                /\ acc'[a].pc = "done"
                /\ acc'[a].err = "ErrListenerClosed"
                /\ acc'[a].ch = 0
                /\ inc' = inc /\ deq' = deq
         ]_vars
    /\ [](\A a \in Acceptors : acc[a].err = "ErrListenerClosed" => incClosed /\ acc[a].ch = 0)

\* Close has returned from the shutdown and both Accept calls, their contexts
\* live, have returned ErrListenerClosed.
C11_Witness ==
    /\ closed
    /\ \E k \in Closers : clo[k].pc = "returned" /\ clo[k].res = "nil"
    /\ \A a \in Acceptors : acc[a].pc = "done" /\ acc[a].err = "ErrListenerClosed" /\ ~ctx[a]

\* C12, as claimed: an Accept call whose context is already done is never
\* blocked, and when it ends with the queue empty it ends with the context's
\* error and no Channel, never with ErrListenerClosed.
C12_CancelledAcceptGetsCtxErr ==
    /\ [](\A a \in Acceptors : (acc[a].pc = "select" /\ ctx[a]) => ENABLED AcceptCtx(a))
    /\ [][\A a \in Acceptors :
            (acc[a].pc = "select" /\ ctx[a] /\ inc = <<>> /\ acc'[a].pc # "select") =>
                acc'[a].err = "ctx" /\ acc'[a].ch = 0
         ]_vars

\* C12, amended: an Accept call whose context is already done is never
\* blocked and, with the queue empty, never returns a Channel; while the queue
\* has not been closed it ends with the context's error; once Listener.Close
\* has closed the queue it ends with the context's error or with
\* ErrListenerClosed, whichever case its select takes.
C12_CancelledAcceptOnOpenListener ==
    /\ [](\A a \in Acceptors : (acc[a].pc = "select" /\ ctx[a]) => ENABLED AcceptCtx(a))
    /\ [][\A a \in Acceptors :
            (acc[a].pc = "select" /\ ctx[a] /\ inc = <<>> /\ acc'[a].pc # "select") =>
                /\ acc'[a].pc = "done" /\ acc'[a].ch = 0
                /\ acc'[a].err \in {"ctx", "ErrListenerClosed"}
                /\ ~incClosed => acc'[a].err = "ctx"
         ]_vars

\* On an open listener with nothing queued an Accept call has ended with its
\* context's error.
C12_Witness ==
    /\ ~incClosed /\ inc = <<>> /\ enq = <<>>
    /\ \E a \in Acceptors : acc[a].pc = "done" /\ acc[a].err = "ctx" /\ ctx[a]

\* C13: a step in which an Accept call ends with the context's error changes
\* nothing of the listener: the queue holds the same Channels in the same
\* order, the queue's and the listener's closed state, the mutex and the
\* histories are as before, and every other Accept call is where it was; a
\* pending Accept call can receive whenever the queue holds a Channel.
C13_CancelLeavesListener ==
    /\ [][\A a \in Acceptors :
            (acc[a].pc = "select" /\ acc'[a].pc = "done" /\ acc'[a].err = "ctx") =>
                /\ inc' = inc /\ incClosed' = incClosed /\ closed' = closed /\ mu' = mu
                /\ enq' = enq /\ deq' = deq /\ drained' = drained
                /\ chDone' = chDone /\ conn' = conn /\ h' = h
                /\ \A b \in Acceptors : b # a => acc'[b] = acc[b]
         ]_vars
    /\ [](\A b \in Acceptors : (acc[b].pc = "select" /\ inc # <<>>) => ENABLED AcceptRecv(b))

\* One Accept call has ended with the context's error while the queue holds a
\* Channel and another Accept call is pending.
C13_Witness ==
    \E a, b \in Acceptors :
        /\ a # b
        /\ acc[a].pc = "done" /\ acc[a].err = "ctx"
        /\ acc[b].pc = "select"
        /\ inc # <<>>

\* The place of connection x in the sequence q.
PosIn(q, x) == CHOOSE n \in DOMAIN q : q[n] = x

\* C14: Channels leave the queue in the order they entered it.  The queue is
\* always the tail end of the enqueue history, an Accept call that receives
\* takes the Channel at its head, and so the Channels returned by Accept calls
\* (of any callers) come in the order in which their attempts were enqueued.
C14_FirstEnqueuedFirstServed ==
    /\ [](Len(inc) <= Len(enq) /\ inc = SubSeq(enq, Len(enq) - Len(inc) + 1, Len(enq)))
    /\ [](\A m, n \in DOMAIN deq : m < n => PosIn(enq, deq[m]) < PosIn(enq, deq[n]))
    /\ [][\A a \in Acceptors :
            (acc[a].pc = "select" /\ acc'[a].pc = "got") =>
                /\ acc'[a].ch = Head(inc)
                /\ inc' = Tail(inc)
                /\ \A x \in Range(inc') : PosIn(enq, acc'[a].ch) < PosIn(enq, x)
         ]_vars

\* With room for two, two Channels were enqueued and two different Accept
\* callers got them, the first enqueued first.
C14_Witness ==
    /\ cap = 2
    /\ Len(deq) = 2
    /\ deq[1] = enq[1] /\ deq[2] = enq[2]
    /\ \E a, b \in Acceptors : a # b /\ acc[a].ch = deq[1] /\ acc[b].ch = deq[2]

C16_SecondCloseReportsClosed ==
    [][(closeCalls'[dialed] > closeCalls[dialed] /\ closeRets[dialed] >= 1) =>
          \E x \in Users : usr'[x].pc = "idle" /\ usr'[x].ret \notin {"", "nil"}
      ]_vars

\* C16, amended: once a Close call has returned, c.done is nil, the done signal
\* has fired and the transport's close has been started; a Close call that
\* begins then returns nil in the same step without panicking and without
\* touching the done signal or the transport, whose close is never started a
\* second time.
C16_SecondCloseIsNoOp ==
    /\ [](closeRets[dialed] >= 1 =>
            ~chField[dialed] /\ chDone[dialed] = "fired" /\ conn[dialed] \in {"closing", "closed"})
    /\ [][(closeCalls'[dialed] > closeCalls[dialed] /\ closeRets[dialed] >= 1) =>
            /\ closeRets'[dialed] = closeRets[dialed] + 1
            /\ chDone' = chDone /\ chField' = chField /\ conn' = conn /\ panicked' = panicked
            /\ \A x \in Users :
                  /\ usr'[x].pc = usr[x].pc
                  /\ usr'[x] # usr[x] => usr'[x].ret = "nil"
         ]_vars
    /\ [](conn[dialed] # "reclosed")

\* Two Close calls have been made one after the other and both have returned.
C16_Witness ==
    /\ closeCalls[dialed] = 2
    /\ closeRets[dialed] = 2
    /\ ~panicked
    /\ chDone[dialed] = "fired"
    /\ \A x \in Users : usr[x].pc = "idle"

\* C17: however Close calls on one Channel interleave, the done signal is
\* closed once and the transport's close is started once: no close of the
\* already-closed done signal (a panic) and no second close of the transport.
C17_ConcurrentCloseOnce ==
    /\ ~panicked
    /\ conn[dialed] # "reclosed"
    /\ Cardinality({x \in Users : usr[x].pc = "c2"}) <= 1

\* C18, as claimed: the done signal has fired only if the transport has been
\* closed.
C18_DoneAfterTransportClosed ==
    chDone[dialed] = "fired" => conn[dialed] = "closed"

\* C18, amended: the done signal is fired by a Close call in the step before
\* that call starts the transport's close, with the transport still open; the
\* transport's close is started only after done has fired; done, once fired,
\* stays fired.
C18_DoneBeforeTransportClose ==
    /\ [][(chDone[dialed] # "fired" /\ chDone'[dialed] = "fired") =>
            /\ conn[dialed] = "open" /\ conn'[dialed] = "open"
            /\ \E x \in Users : usr[x].pc = "c1" /\ usr'[x].pc = "c2"
         ]_vars
    /\ [](conn[dialed] # "open" => chDone[dialed] = "fired")
    /\ [][chDone[dialed] = "fired" => chDone'[dialed] = "fired"]_vars

\* A goroutine holding the signal from Done has seen it fired while the
\* transport is still open.
C18_Witness ==
    /\ chDone[dialed] = "fired"
    /\ conn[dialed] = "open"
    /\ \E x \in Users : usr[x].obs

\* C19: a goroutine that holds a signal from Done, taken before or after
\* Close, can see it fired once a Close call has returned: the signal is ready
\* or has been observed.
C19_DoneObservable ==
    \A x \in Users :
        (usr[x].sig # "none" /\ closeRets[dialed] >= 1) => (usr[x].obs \/ SigReady(x))

\* C20: once a Close call on the Channel has returned or its peer has closed,
\* a Send or Recv does not block, and one that ends, ends with net.ErrClosed.
C20_ClosedOpsFailClosed ==
    /\ [](\A x \in Users :
            (usr[x].pc = "idle" /\ (closeRets[dialed] >= 1 \/ peerClosed)) =>
                ENABLED ChSend(x) /\ ENABLED ChRecv(x))
    /\ [][\A x \in Users :
            (usr'[x].io # usr[x].io /\ (closeRets[dialed] >= 1 \/ peerClosed)) =>
                usr'[x].io = "net.ErrClosed"
         ]_vars

\* The transport errors that stand for a closed connection: a received close
\* frame, in any of the forms the websocket library's CloseError takes.
IsCloseErr(err) == err \in {"CloseError", "&CloseError", "(*CloseError)(nil)"}

\* C21: what Send and Recv return is the classification of the transport's
\* error: net.ErrClosed for every error that stands for a closed connection,
\* the error itself for every other error, nil for nil.
C21_ClassificationExact ==
    \A x \in Users :
        usr[x].pc \in {"sent", "received"} =>
            usr[x].io = IF IsCloseErr(usr[x].raw) THEN "net.ErrClosed" ELSE usr[x].raw

\* The payloads of the messages in q, in order.
DataOf(q) == [n \in DOMAIN q |-> q[n].data]

HookRejected(i) == hookRet[i] # <<>> /\ hookRet[i][2]

\* Attempt i never got a transport or a Channel, and is not in the queue.
NoChannelFor(i) ==
    /\ conn[i] = "none"
    /\ chDone[i] = "none"
    /\ ~chField[i]
    /\ i \notin Range(inc)
    /\ i \notin Range(enq)

\* C23: when the admission hook reports an error for an attempt, the attempt is
\* answered in that very step with the hook's status if it is greater than 0
\* and with 500 otherwise, and it ends there: no upgrade has happened or
\* happens, no Channel is created or enqueued, the queue, the mutex and every
\* Channel are left as they were, and the attempt never moves again.  An
\* attempt that did get upgraded is one whose hook reported no error.
C23_HookErrorEndsAttempt ==
    [][\A i \in Conns :
          /\ (hookRet[i] = <<>> /\ HookRejected(i)') =>
                /\ h'[i].pc = "returned"
                /\ h'[i].code = (IF hookRet'[i][1] > 0 THEN hookRet'[i][1]
                                 ELSE StatusInternalServerError)
                /\ NoChannelFor(i) /\ NoChannelFor(i)'
                /\ UNCHANGED <<inc, incClosed, enq, mu, conn, chDone, chField>>
          /\ HookRejected(i) => /\ UNCHANGED <<h[i], hookRet[i]>>
                                /\ NoChannelFor(i)'
          /\ conn'[i] # "none" => hookRet'[i] # <<>> /\ ~hookRet'[i][2]]_vars

\* C23 witness: with a Channel waiting in the queue, one attempt was refused
\* with the hook's own status and another with 500 for a hook status that is
\* not positive.
C23_Witness ==
    /\ inc # <<>>
    /\ \E i, j \in Conns :
          /\ hookRet[i] = <<StatusTeapot, TRUE>> /\ h[i].code = StatusTeapot
          /\ hookRet[j] = <<-1, TRUE>> /\ h[j].code = StatusInternalServerError
          /\ h[i].pc = "returned" /\ h[j].pc = "returned"

\* C24 as stated: whenever the hook returned a non-zero status for an attempt,
\* the connecting party got exactly that status and no Channel was created.
C24_NonZeroStatusObserved ==
    \A i \in Conns :
        (hookRet[i] # <<>> /\ hookRet[i][1] # 0) =>
            /\ h[i].pc = "returned"
            /\ h[i].code = hookRet[i][1]
            /\ NoChannelFor(i)

\* C24 amended: whenever the hook reported an error together with a status
\* greater than 0 for an attempt, the connecting party got exactly that status
\* and no Channel was created for the attempt.
C24_ErrorStatusObserved ==
    \A i \in Conns :
        (HookRejected(i) /\ hookRet[i][1] > 0) =>
            /\ h[i].pc = "returned"
            /\ h[i].code = hookRet[i][1]
            /\ NoChannelFor(i)

\* C24 witness: one attempt was refused with the hook's positive status, while
\* another, whose hook returned the same status without an error, was upgraded
\* and its Channel accepted.
C24_Witness ==
    \E i, j \in Conns :
        /\ hookRet[i] = <<StatusTeapot, TRUE>>
        /\ h[i].pc = "returned" /\ h[i].code = StatusTeapot
        /\ hookRet[j] = <<StatusTeapot, FALSE>>
        /\ j \in Range(deq)

\* C25: while a Listener.Close call waits in wg.Wait for the connections still
\* in flight, it does not hold the listener mutex: a handler that has reached
\* add can take the mutex and get ErrListenerClosed, and so can another Close
\* call, without waiting for those connections to close.
C25_WaitOutsideLock ==
    \A k \in Closers :
        (clo[k].pc = "wgwait" /\ wg > 0 /\ ~panicked) =>
            /\ mu # Closer(k)
            /\ \A i \in Conns : h[i].pc = "add" => ENABLED add(i)
            /\ \A k2 \in Closers : clo[k2].pc = "idle" => ENABLED WGCloseBegin(k2)

\* C25: a Close call that has drained the queue waits for a connection that is
\* still open, with the mutex in its hands, while an upgraded attempt stands
\* at add and another Close call stands at its Lock.
C25_Witness ==
    \E k, k2 \in Closers : \E i, j \in Conns :
        /\ clo[k].pc = "wgwait" /\ clo[k].res = "nil" /\ mu = Closer(k)
        /\ wg > 0 /\ g[j] = "wait" /\ ~DoneFired(j)
        /\ h[i].pc = "add" /\ ~ENABLED add(i)
        /\ clo[k2].pc = "idle" /\ ~ENABLED WGCloseBegin(k2)
        /\ ~panicked

\* C26: no interleaving of attempts with Listener.Close makes a producer send
\* into the queue after the queue has been closed: every send of the goroutine
\* that add started finds the queue open, and the program does not panic.
C26_NoSendAfterQueueClosed ==
    [][/\ \A i \in Conns : GoSend(i) => ~incClosed
       /\ ~panicked']_vars

\* C26: an attempt was admitted by add before Close; Close then closed the
\* queue before the attempt's goroutine had sent, and the send panicked.
C26_Witness ==
    \E i \in Conns : \E k \in Closers :
        /\ panicked
        /\ incClosed
        /\ g[i] = "send" /\ h[i].pc = "wait"
        /\ clo[k].pc \in {"drain", "b1", "b2", "wgwait"}

\* C27: the listener leaks no upgraded transport: an attempt refused because
\* the listener is closed or the queue is full holds no open transport, and
\* every attempt that was upgraded and whose handler has returned had its
\* transport wrapped in a Channel that was put in the queue.
C27_NoTransportLeaked ==
    \A i \in Conns :
        /\ h[i] \in {ListenerClosedResp, QueueFullResp} => conn[i] # "open"
        /\ (conn[i] # "none" /\ h[i].pc = "returned") =>
                chDone[i] # "none" /\ i \in Range(enq)

\* C27: an attempt was upgraded while the listener was open, Close ran before
\* the handler reached add, and add refused the attempt: the handler has
\* returned, the transport is open and no Channel holds it.
C27_Witness ==
    \E i \in Conns :
        /\ h[i] = ListenerClosedResp
        /\ conn[i] = "open"
        /\ chDone[i] = "none" /\ ~chField[i]
        /\ i \notin Range(enq)
        /\ closed /\ ~panicked

============================================================================
